---- MODULE Spec2Model ----
(***************************************************************************)
(* A model of the styling registry (src/src/core/styling.registry.ts) and  *)
(* of the control base class (src/src/renderers/controls/base.control.ts). *)
(*                                                                         *)
(* JavaScript strings are sequences of one-character strings, so that      *)
(* split and join are computed and not assumed.  Arrays of class names are *)
(* objects on a heap (arrays), so that two holders of one array see each   *)
(* other's writes.                                                         *)
(***************************************************************************)
EXTENDS Integers, Sequences, FiniteSets, TLC

VARIABLES
    styles,       \* StylingRegistryImpl.styles: sequence of [name, classNames (a heap reference)]
    arrays,       \* the heap of class-name arrays: reference -> contents
    callerArr,    \* the array reference the registry's caller holds (0: none)
    last,         \* the last registry call and what it returned
    lastReg,      \* history: per style name, the class names last registered and not deregistered
    fromSeed,     \* history: the names no register or deregister call has named yet
    callerWrites, \* history: how many times the caller has written to an array it holds
    kind,         \* which subclass of BaseControl the control is
    rendered,     \* how many times render() has run
    children,     \* the control element's child nodes, in order
    label,        \* this.label: [gen, className]; gen 0 is undefined
    input,        \* this.input: [gen, value, disabled]; gen 0 is undefined
    errorElement, \* this.errorElement: [gen, className, textContent]; gen 0 is undefined
    className,    \* the control element's class attribute
    hidden,       \* the control element's hidden flag
    attached,     \* the control is connected to the document
    listeners,    \* the data service's data-change listeners
    data,         \* the data service's value at the control's path
    ctlLast       \* the last call on the control and how it ended

regVars == <<styles, arrays, callerArr, last, lastReg, fromSeed, callerWrites>>

ctlVars == <<kind, rendered, children, label, input, errorElement, className, hidden,
             attached, listeners, data, ctlLast>>

vars == <<regVars, ctlVars>>

(* ------------------------------ bounds -------------------------------- *)

\* Most writes (push, pop) the caller makes to arrays it holds.
MaxWrites == 1
\* Most calls of render() on the control.
MaxRenders == 2

(* ------------------------------ values -------------------------------- *)

SP == " "
NL == "\n"

\* A string is a sequence of characters.
Str(c) == <<c>>

StyleNames == {"validation.error", "control.label"}

\* The class name a caller pushes to an array it holds.
PushedClass == Str("b")

\* The class-name lists callers register.
ClassLists == {<<>>, <<Str("a")>>, <<Str("b"), Str("a")>>}

\* A Style as a caller writes it: a name and the contents of a new array.
Style(name, classNames) == [name |-> name, classNames |-> classNames]

\* The lists a caller constructs the registry from (new StylingRegistryImpl(styles)).
Seeds ==
    { <<>>,
      <<Style("validation.error", <<Str("a")>>)>>,
      <<Style("validation.error", <<Str("a")>>), Style("control.label", <<Str("b"), Str("a")>>)>>,
      <<Style("control.label", <<Str("a")>>), Style("control.label", <<Str("b")>>)>> }

\* The lists a caller passes to registerMany.
ManyLists ==
    { <<>>,
      <<Style("validation.error", <<Str("a")>>)>>,
      <<Style("validation.error", <<Str("a")>>), Style("validation.error", <<Str("b"), Str("a")>>)>>,
      <<Style("validation.error", <<Str("b"), Str("a")>>), Style("control.label", <<Str("a")>>)>>,
      <<Style("control.label", <<>>), Style("validation.error", <<Str("a")>>),
        Style("control.label", <<Str("b")>>)>> }

\* The Style objects a caller passes to register(style).
StyleInputs ==
    { Style("validation.error", <<Str("b"), Str("a")>>), Style("control.label", <<Str("a")>>) }

\* The class attributes of the elements a caller passes to applyStyles.
ElementClassNames == {<<>>, <<"f">>, <<"f", SP, "g">>}

(* ------------------------- JavaScript helpers -------------------------- *)

\* Array.prototype.join(sep) on an array of strings.
RECURSIVE JoinWith(_, _)
JoinWith(arr, sep) ==
    IF Len(arr) = 0 THEN <<>>
    ELSE IF Len(arr) = 1 THEN arr[1]
    ELSE arr[1] \o <<sep>> \o JoinWith(Tail(arr), sep)

\* _.join(arr, ' ').
Join(arr) == JoinWith(arr, SP)

\* String.prototype.split(' '): one piece per separator, empty pieces kept;
\* the empty string splits into one empty piece.
RECURSIVE Split(_)
Split(s) ==
    IF \A i \in 1..Len(s) : s[i] # SP THEN <<s>>
    ELSE LET i == CHOOSE k \in 1..Len(s) :
                      s[k] = SP /\ \A j \in 1..(k - 1) : s[j] # SP
         IN <<SubSeq(s, 1, i - 1)>> \o Split(SubSeq(s, i + 1, Len(s)))

\* _.isEmpty of an array or of a string.
IsEmpty(x) == Len(x) = 0

(* ------------------------------ the heap ------------------------------- *)

\* arrays is a sequence: the array with reference r has the contents arrays[r].
\* A new array object gets the next reference.
Alloc(arrs) == Len(arrs) + 1

\* The heap with the array at r set to contents (r may be new).
Store(arrs, r, contents) ==
    [q \in DOMAIN arrs \cup {r} |-> IF q = r THEN contents ELSE arrs[q]]

\* References are object identities: only which holders share an array can be
\* observed.  Renumber(sts, arrs, held) drops the arrays nobody references any
\* more, names the others 1, 2, ... in the order styles and then the caller
\* first mention them, and gives [styles, arrays, held] under the new names.
RECURSIVE FirstMentions(_)
FirstMentions(refs) ==
    IF Len(refs) = 0 THEN <<>>
    ELSE LET before == FirstMentions(SubSeq(refs, 1, Len(refs) - 1))
             r == refs[Len(refs)]
         IN IF \E i \in 1..Len(before) : before[i] = r THEN before ELSE Append(before, r)

Renumber(sts, arrs, held) ==
    LET mentioned == [i \in 1..Len(sts) |-> sts[i].classNames]
                         \o (IF held = 0 THEN <<>> ELSE <<held>>)
        order == FirstMentions(mentioned)
        new(r) == CHOOSE k \in 1..Len(order) : order[k] = r
    IN [styles |-> [i \in 1..Len(sts) |-> [name |-> sts[i].name,
                                             classNames |-> new(sts[i].classNames)]],
        arrays |-> [k \in 1..Len(order) |-> arrs[order[k]]],
        held |-> IF held = 0 THEN 0 ELSE new(held)]


(* ------------------------- StylingRegistryImpl ------------------------- *)

\* _.remove(this.styles, style => style.name === styleName): every matching
\* record is taken out, the others keep their order.
RECURSIVE deregisterMissesLast(_, _)
deregisterMissesLast(sts, styleName) ==
    IF Len(sts) <= 1 THEN sts
    ELSE IF Head(sts).name = styleName THEN deregisterMissesLast(Tail(sts), styleName)
    ELSE <<Head(sts)>> \o deregisterMissesLast(Tail(sts), styleName)

RECURSIVE deregister(_, _)
deregister(sts, styleName) ==
    IF Len(sts) = 0 THEN sts
    ELSE IF Head(sts).name = styleName THEN deregister(Tail(sts), styleName)
    ELSE <<Head(sts)>> \o deregister(Tail(sts), styleName)

\* register(style, classNames): both overloads deregister the name and push
\* one record that holds the caller's array itself (no copy).
registerKeepsOld(sts, name, ref) == Append(sts, [name |-> name, classNames |-> ref])

register(sts, name, ref) ==
    Append(deregister(sts, name), [name |-> name, classNames |-> ref])

\* registerMany(styles): register(style.name, style.classNames) for each
\* element, first to last.  list holds each element's name and the contents of
\* its (new) classNames array; reg is [styles, arrays].
RECURSIVE registerMany(_, _)
registerMany(reg, list) ==
    IF Len(list) = 0 THEN reg
    ELSE LET r == Alloc(reg.arrays)
             arrs == Store(reg.arrays, r, Head(list).classNames)
             sts == register(reg.styles, Head(list).name, r)
         IN registerMany([styles |-> sts, arrays |-> arrs], Tail(list))

\* _.find(this.styles, style => style.name === styleName): the index of the
\* first match, 0 when _.find returns undefined.
find(sts, styleName) ==
    IF \E i \in 1..Len(sts) : sts[i].name = styleName
    THEN CHOOSE i \in 1..Len(sts) :
             sts[i].name = styleName /\ \A j \in 1..(i - 1) : sts[j].name # styleName
    ELSE 0

\* get(styleName) returns foundStyle.classNames, the registry's own array, or
\* a new empty array: the reference returned, 0 for the new empty array.
getRef(sts, styleName) ==
    LET foundStyle == find(sts, styleName)
    IN IF foundStyle # 0 THEN sts[foundStyle].classNames ELSE 0

\* The contents of the array get(styleName) returns.
get(sts, arrs, styleName) ==
    LET ref == getRef(sts, styleName)
    IN IF ref = 0 THEN <<>> ELSE arrs[ref]

getAsClassNameNoSeparator(sts, arrs, styleName) ==
    LET found == get(sts, arrs, styleName)
    IN IF IsEmpty(found) THEN <<>>
       ELSE [i \in 1..Len(found) |-> found[i][1]]

getAsClassName(sts, arrs, styleName) ==
    LET found == get(sts, arrs, styleName)
    IN IF IsEmpty(found) THEN <<>> ELSE Join(found)

\* applyStyles(styleName, element): the element's className afterwards.
applyStyles(sts, arrs, styleName, elementClass) ==
    LET registeredStyles == get(sts, arrs, styleName)
    IN IF IsEmpty(registeredStyles) THEN elementClass
       ELSE Join(Split(elementClass) \o registeredStyles)


(* ----------------------- the registry's operations --------------------- *)

\* new StylingRegistryImpl(styles): the list is kept as given.
Construct(seed) ==
    /\ styles = [i \in 1..Len(seed) |-> [name |-> seed[i].name, classNames |-> i]]
    /\ arrays = [i \in 1..Len(seed) |-> seed[i].classNames]
    /\ callerArr = 0
    /\ last = [op |-> "new"]
    /\ lastReg = [n \in StyleNames |-> <<>>]
    /\ fromSeed = {seed[i].name : i \in 1..Len(seed)}
    /\ callerWrites = 0

\* The registry and the caller's reference after a call.
Commit(sts, arrs, held) ==
    LET n == Renumber(sts, arrs, held)
    IN /\ styles' = n.styles
       /\ arrays' = n.arrays
       /\ callerArr' = n.held

\* register(name, classNames) with a new array literal.
Register(name, classNames) ==
    /\ LET r == Alloc(arrays)
       IN Commit(register(styles, name, r), Store(arrays, r, classNames), callerArr)
    /\ last' = [op |-> "register", name |-> name, replaced |-> find(styles, name) # 0]
    /\ lastReg' = [lastReg EXCEPT ![name] = classNames]
    /\ fromSeed' = fromSeed \ {name}
    /\ UNCHANGED <<callerWrites, ctlVars>>

\* register(style) with a new Style object literal.
RegisterStyle(style) ==
    /\ LET r == Alloc(arrays)
       IN Commit(register(styles, style.name, r), Store(arrays, r, style.classNames),
                 callerArr)
    /\ last' = [op |-> "register", name |-> style.name,
                replaced |-> find(styles, style.name) # 0]
    /\ lastReg' = [lastReg EXCEPT ![style.name] = style.classNames]
    /\ fromSeed' = fromSeed \ {style.name}
    /\ UNCHANGED <<callerWrites, ctlVars>>

\* register(name, arr) with an array the caller already holds.
RegisterHeld(name) ==
    /\ callerArr # 0
    /\ Commit(register(styles, name, callerArr), arrays, callerArr)
    /\ last' = [op |-> "register", name |-> name, replaced |-> find(styles, name) # 0]
    /\ lastReg' = [lastReg EXCEPT ![name] = arrays[callerArr]]
    /\ fromSeed' = fromSeed \ {name}
    /\ UNCHANGED <<callerWrites, ctlVars>>

\* The class names the list's last element named n carries.
LastOf(list, n) ==
    list[CHOOSE i \in 1..Len(list) :
             list[i].name = n /\ \A j \in (i + 1)..Len(list) : list[j].name # n].classNames

RegisterMany(list) ==
    /\ LET reg == registerMany([styles |-> styles, arrays |-> arrays], list)
       IN Commit(reg.styles, reg.arrays, callerArr)
    /\ last' = [op |-> "registerMany"]
    /\ lastReg' = [n \in StyleNames |->
                     IF \E i \in 1..Len(list) : list[i].name = n
                     THEN LastOf(list, n) ELSE lastReg[n]]
    /\ fromSeed' = fromSeed \ {list[i].name : i \in 1..Len(list)}
    /\ UNCHANGED <<callerWrites, ctlVars>>

Deregister(name) ==
    /\ Commit(deregister(styles, name), arrays, callerArr)
    /\ last' = [op |-> "deregister", name |-> name, found |-> find(styles, name) # 0,
                threw |-> FALSE]
    /\ lastReg' = [lastReg EXCEPT ![name] = <<>>]
    /\ fromSeed' = fromSeed \ {name}
    /\ UNCHANGED <<callerWrites, ctlVars>>

\* const arr = registry.get(name): the caller now holds what get returned.
Get(name) ==
    /\ LET ref == getRef(styles, name)
           r == IF ref = 0 THEN Alloc(arrays) ELSE ref
           arrs == IF ref = 0 THEN Store(arrays, r, <<>>) ELSE arrays
       IN Commit(styles, arrs, r)
    /\ last' = [op |-> "get"]
    /\ UNCHANGED <<lastReg, fromSeed, callerWrites, ctlVars>>

\* arr.push(c) on the array the caller holds.
CallerPush(c) ==
    /\ callerArr # 0
    /\ callerWrites < MaxWrites
    /\ arrays' = [arrays EXCEPT ![callerArr] = Append(@, c)]
    /\ last' = [op |-> "write"]
    /\ callerWrites' = callerWrites + 1
    /\ UNCHANGED <<styles, callerArr, lastReg, fromSeed, ctlVars>>

\* arr.pop() on the array the caller holds.
CallerPop ==
    /\ callerArr # 0
    /\ callerWrites < MaxWrites
    /\ Len(arrays[callerArr]) > 0
    /\ arrays' = [arrays EXCEPT ![callerArr] = SubSeq(@, 1, Len(@) - 1)]
    /\ last' = [op |-> "write"]
    /\ callerWrites' = callerWrites + 1
    /\ UNCHANGED <<styles, callerArr, lastReg, fromSeed, ctlVars>>

\* registry.applyStyles(name, element) on an element whose class attribute is
\* elementClass.
ApplyStyles(name, elementClass) ==
    /\ last' = [op |-> "applyStyles", name |-> name, before |-> elementClass,
                after |-> applyStyles(styles, arrays, name, elementClass)]
    /\ UNCHANGED <<styles, arrays, callerArr, lastReg, fromSeed, callerWrites, ctlVars>>

\* registry.getAsClassName(name).
GetAsClassName(name) ==
    /\ last' = [op |-> "getAsClassName", name |-> name,
                ret |-> getAsClassName(styles, arrays, name)]
    /\ UNCHANGED <<styles, arrays, callerArr, lastReg, fromSeed, callerWrites, ctlVars>>

(* ------------------------------ the DOM -------------------------------- *)

\* The tokens of a class attribute, in order, each once (the DOM's ordered-set
\* parser).
RECURSIVE Once(_)
Once(seq) ==
    IF Len(seq) = 0 THEN <<>>
    ELSE LET before == Once(SubSeq(seq, 1, Len(seq) - 1))
             x == seq[Len(seq)]
         IN IF \E i \in 1..Len(before) : before[i] = x THEN before ELSE Append(before, x)

Tokens(attr) == Once(SelectSeq(Split(attr), LAMBDA piece : Len(piece) > 0))

HasToken(attr, token) == \E i \in 1..Len(Tokens(attr)) : Tokens(attr)[i] = token

HasWhitespace(token) == \E i \in 1..Len(token) : token[i] \in {SP, NL}

classListToggleOverwrites(attr, token, force) ==
    IF Len(token) = 0 THEN [className |-> attr, outcome |-> "SyntaxError"]
    ELSE IF HasWhitespace(token) THEN [className |-> attr, outcome |-> "InvalidCharacterError"]
    ELSE [className |-> IF force THEN token ELSE <<>>, outcome |-> "ok"]

\* element.classList.toggle(token, force): the class attribute afterwards and
\* how the call ends.  An empty token is a SyntaxError, a token with whitespace
\* an InvalidCharacterError.
classListToggle(attr, token, force) ==
    IF Len(token) = 0 THEN [className |-> attr, outcome |-> "SyntaxError"]
    ELSE IF HasWhitespace(token) THEN [className |-> attr, outcome |-> "InvalidCharacterError"]
    ELSE IF HasToken(attr, token)
         THEN IF force THEN [className |-> attr, outcome |-> "ok"]
              ELSE [className |-> Join(SelectSeq(Tokens(attr), LAMBDA t : t # token)),
                    outcome |-> "ok"]
         ELSE IF force THEN [className |-> Join(Append(Tokens(attr), token)), outcome |-> "ok"]
              ELSE [className |-> attr, outcome |-> "ok"]

\* element.classList.add(token) with a valid token.
classListAdd(attr, token) ==
    IF HasToken(attr, token) THEN Join(Tokens(attr)) ELSE Join(Append(Tokens(attr), token))

(* ----------------------------- BaseControl ----------------------------- *)

Values == {0, 1}

\* "base" keeps BaseControl's conversions, "sub" overrides both.
Kinds == {"base", "sub"}

Refs == {"/firstName", "/lastName"}

Element(ref) == [kind |-> "element", ref |-> ref]
NullElement == [kind |-> "null"]
UndefinedElement == [kind |-> "undefined"]

\* The control elements the data service names in a notification.
ElementInputs == {NullElement, UndefinedElement} \cup {Element(r) : r \in Refs}

\* this.uischema: the ControlElement the control is bound to.
uischema == Element("/firstName")

\* runtime.validationErrors: undefined, null or an array of strings.
Errors(items) == [kind |-> "array", items |-> items]
ErrorInputs ==
    { [kind |-> "undefined"], [kind |-> "null"], Errors(<<>>), Errors(<<Str("q")>>),
      Errors(<<Str("q"), Str("m")>>) }

\* this.uischema.runtime as the control reads it in runtimeUpdated.
RuntimeInputs == [validationErrors : ErrorInputs, visible : BOOLEAN, enabled : BOOLEAN]

RuntimeTypes == {"VALIDATION_ERROR", "VISIBLE", "ENABLED", "OTHER"}

\* The registries a control finds in JsonForms.stylingRegistry.
ControlSeeds ==
    { <<>>,
      <<Style("validation.error", <<Str("e")>>), Style("control.label", <<Str("l")>>),
        Style("control.input", <<Str("i")>>), Style("control", <<Str("c")>>),
        Style("control.validation", <<Str("v")>>)>>,
      <<Style("control.label", <<Str("l"), Str("m")>>),
        Style("validation.error", <<Str("e"), Str("r")>>)>> }

\* Renderer.convertToClassName(controlElement.scope.$ref): a class token made
\* of the reference.
convertToClassName(ref) == IF ref = "/firstName" THEN Str("n") ELSE Str("o")

formatErrorMessageOnOneLine(errors) ==
    IF errors.kind = "undefined" \/ errors.kind = "null" THEN <<>>
    ELSE JoinWith(errors.items, SP)

formatErrorMessage(errors) ==
    IF errors.kind = "undefined" \/ errors.kind = "null" THEN <<>>
    ELSE JoinWith(errors.items, NL)

\* The conversions of the "sub" control.
subModelValue(value) == 1 - value
subInputValue(value) == 0

convertModelValue(value) == IF kind = "base" THEN value ELSE subModelValue(value)

convertInputValue(value) == IF kind = "base" THEN value ELSE subInputValue(value)

getStyles(styleName) == getAsClassName(styles, arrays, styleName)

\* getValue(input): the converted value of a widget.
getValueUnconverted(inp) == inp.value

getValue(inp) == convertInputValue(inp.value)

\* setValue(input, value): the widget afterwards.
setValueUnconverted(inp, value) == [inp EXCEPT !.value = value]

setValue(inp, value) == [inp EXCEPT !.value = convertModelValue(value)]

needsNotificationAboutAnyRef(controlElement) ==
    IF controlElement.kind = "undefined" \/ controlElement.kind = "null" THEN FALSE
    ELSE TRUE

needsNotificationAbout(controlElement) ==
    IF controlElement.kind = "undefined" \/ controlElement.kind = "null" THEN FALSE
    ELSE uischema.ref = controlElement.ref

Node(tag, gen) == [tag |-> tag, gen |-> gen]

\* The ENABLED branch of runtimeUpdated: the widget after setAttribute or
\* removeAttribute of 'disabled'.
setDisabledNeverRemoves(inp, enabled) ==
    IF ~enabled THEN [inp EXCEPT !.disabled = TRUE] ELSE inp

setDisabled(inp, enabled) ==
    IF ~enabled THEN [inp EXCEPT !.disabled = TRUE] ELSE [inp EXCEPT !.disabled = FALSE]

\* createLabel(controlElement): the label of render number gen.
createLabel(gen) ==
    [gen |-> gen, className |-> applyStyles(styles, arrays, "control.label", <<>>)]

\* createInput(controlElement): the widget of render number gen, holding the
\* bound value, and the label after applyStyles('control.input', this.label).
createInputStylesInput(gen, lbl) ==
    [input |-> setValue([gen |-> gen, value |-> 0, disabled |-> FALSE,
                         className |-> applyStyles(styles, arrays, "control.input", <<>>)],
                        data),
     label |-> lbl]

createInput(gen, lbl) ==
    [input |-> setValue([gen |-> gen, value |-> 0, disabled |-> FALSE,
                         className |-> <<>>], data),
     label |-> [lbl EXCEPT !.className =
                    applyStyles(styles, arrays, "control.input", lbl.className)]]

\* The control after its constructor.
NewControl(k, d) ==
    /\ kind = k
    /\ data = d
    /\ rendered = 0
    /\ children = <<>>
    /\ label = [gen |-> 0, className |-> <<>>]
    /\ input = [gen |-> 0, value |-> 0, disabled |-> FALSE, className |-> <<>>]
    /\ errorElement = [gen |-> 0, className |-> <<>>, textContent |-> <<>>]
    /\ className = <<>>
    /\ hidden = FALSE
    /\ attached = FALSE
    /\ listeners = {}
    /\ ctlLast = [op |-> "new", calls |-> <<>>]

\* render(): createLabel, createInput, the error element, the three children,
\* the control's own classes.
Render ==
    /\ rendered < MaxRenders
    /\ LET gen == rendered + 1
           created == createInput(gen, createLabel(gen))
       IN /\ rendered' = gen
          /\ label' = created.label
          /\ input' = created.input
          /\ errorElement' = [gen |-> gen, className |-> getStyles("control.validation"),
                              textContent |-> <<>>]
          /\ children' = children \o <<Node("label", gen), Node("input", gen),
                                       Node("error", gen)>>
    /\ className' = classListAdd(getStyles("control"), convertToClassName(uischema.ref))
    /\ ctlLast' = [op |-> "render", calls |-> <<>>]
    /\ UNCHANGED <<kind, hidden, attached, listeners, data, regVars>>

dispose ==
    /\ ctlLast' = [op |-> "dispose", calls |-> <<>>]
    /\ UNCHANGED <<kind, rendered, children, label, input, errorElement, className, hidden,
                   attached, listeners, data, regVars>>

\* runtimeUpdated(type), with runtime what this.uischema.runtime holds then.
runtimeUpdated(type, runtime) ==
    /\ CASE type = "VALIDATION_ERROR" ->
              IF errorElement.gen = 0
              THEN /\ ctlLast' = [op |-> "runtimeUpdated", type |-> type,
                                  read |-> runtime.validationErrors,
                                  outcome |-> "TypeError", calls |-> <<>>]
                   /\ UNCHANGED <<errorElement, className, hidden, input>>
              ELSE LET toggled == classListToggle(className, getStyles("validation.error"),
                                                  runtime.validationErrors.kind # "undefined")
                   IN /\ errorElement' = [errorElement EXCEPT !.textContent =
                                              formatErrorMessage(runtime.validationErrors)]
                      /\ className' = toggled.className
                      /\ ctlLast' = [op |-> "runtimeUpdated", type |-> type,
                                     read |-> runtime.validationErrors,
                                     outcome |-> toggled.outcome, calls |-> <<>>]
                      /\ UNCHANGED <<hidden, input>>
         [] type = "VISIBLE" ->
              /\ hidden' = ~runtime.visible
              /\ ctlLast' = [op |-> "runtimeUpdated", type |-> type, read |-> runtime.visible,
                             outcome |-> "ok", calls |-> <<>>]
              /\ UNCHANGED <<errorElement, className, input>>
         [] type = "ENABLED" ->
              IF input.gen = 0
              THEN /\ ctlLast' = [op |-> "runtimeUpdated", type |-> type,
                                  read |-> runtime.enabled,
                                  outcome |-> "TypeError", calls |-> <<>>]
                   /\ UNCHANGED <<errorElement, className, hidden, input>>
              ELSE /\ input' = setDisabled(input, runtime.enabled)
                   /\ ctlLast' = [op |-> "runtimeUpdated", type |-> type,
                                  read |-> runtime.enabled,
                                  outcome |-> "ok", calls |-> <<>>]
                   /\ UNCHANGED <<errorElement, className, hidden>>
         [] OTHER ->
              /\ ctlLast' = [op |-> "runtimeUpdated", type |-> type, outcome |-> "ok",
                             calls |-> <<>>]
              /\ UNCHANGED <<errorElement, className, hidden, input>>
    /\ UNCHANGED <<kind, rendered, children, label, attached, listeners, data, regVars>>

\* The data service's registerDataChangeListener(this) and
\* deregisterDataChangeListener(this): its listeners afterwards.
registerDataChangeListener(ls) == ls \cup {"control"}
deregisterDataChangeListener(ls) == ls \ {"control"}

\* connectedCallback(): the control is attached (after render) and registers.
connectedCallbackNoRegister ==
    /\ ~attached
    /\ rendered > 0
    /\ attached' = TRUE
    /\ ctlLast' = [op |-> "connectedCallback", calls |-> <<>>]
    /\ UNCHANGED <<kind, rendered, children, label, input, errorElement, className, hidden,
                   listeners, data, regVars>>

connectedCallback ==
    /\ ~attached
    /\ rendered > 0
    /\ attached' = TRUE
    /\ listeners' = registerDataChangeListener(listeners)
    /\ ctlLast' = [op |-> "connectedCallback", calls |-> <<>>]
    /\ UNCHANGED <<kind, rendered, children, label, input, errorElement, className, hidden,
                   data, regVars>>

disconnectedCallback ==
    /\ attached
    /\ listeners' = deregisterDataChangeListener(listeners)
    /\ attached' = FALSE
    /\ ctlLast' = [op |-> "disconnectedCallback", calls |-> <<>>]
    /\ UNCHANGED <<kind, rendered, children, label, input, errorElement, className, hidden,
                   data, regVars>>

\* dataChanged(controlElement, newValue, data): the widget afterwards.
dataChanged(inp, controlElement, newValue) == setValue(inp, newValue)

\* The data service tells its listeners about a change of controlElement to
\* newValue: the control's widget afterwards.
Delivered(inp, controlElement, newValue) ==
    IF "control" \in listeners /\ needsNotificationAbout(controlElement)
    THEN dataChanged(inp, controlElement, newValue)
    ELSE inp

\* dataService.notifyAboutDataChange(controlElement, newValue), called with the
\* widget being inp: the service stores the value and tells its listeners.
notifyAboutDataChange(inp, controlElement, newValue) ==
    /\ data' = IF controlElement = uischema THEN newValue ELSE data
    /\ input' = Delivered(inp, controlElement, newValue)

\* The handler createInput installs on the widget of render number gen:
\* controlElement is the one render() saw, this.input is read when the handler
\* runs.
changeHandlerWhileListening(inp, gen) ==
    IF "control" \in listeners
    THEN LET call == [element |-> uischema, value |-> getValue(inp)]
         IN /\ notifyAboutDataChange(inp, call.element, call.value)
            /\ ctlLast' = [op |-> "edit", widget |-> inp.value, handlerOf |-> gen,
                           calls |-> <<call>>]
    ELSE /\ input' = inp
         /\ ctlLast' = [op |-> "edit", widget |-> inp.value, handlerOf |-> gen,
                        calls |-> <<>>]
         /\ UNCHANGED data

changeHandler(inp, gen) ==
    LET call == [element |-> uischema, value |-> getValue(inp)]
    IN /\ notifyAboutDataChange(inp, call.element, call.value)
       /\ ctlLast' = [op |-> "edit", widget |-> inp.value, handlerOf |-> gen,
                      calls |-> <<call>>]

\* The user sets the widget this.input to typed; its change handler runs.
UserEdit(typed) ==
    /\ input.gen > 0
    /\ changeHandler([input EXCEPT !.value = typed], input.gen)
    /\ UNCHANGED <<kind, rendered, children, label, errorElement, className, hidden,
                   attached, listeners, regVars>>

\* The user edits a widget of an earlier render(), still a child of the
\* control; its change handler runs.
StaleEdit ==
    /\ rendered > 1
    /\ \E gen \in 1..(rendered - 1) : changeHandler(input, gen)
    /\ UNCHANGED <<kind, rendered, children, label, errorElement, className, hidden,
                   attached, listeners, regVars>>

\* The data service notifies its listeners of a change made elsewhere.
DataChange(controlElement, newValue) ==
    /\ "control" \in listeners
    /\ notifyAboutDataChange(input, controlElement, newValue)
    /\ ctlLast' = [op |-> "dataChange", element |-> controlElement, newValue |-> newValue,
                   needs |-> needsNotificationAbout(controlElement), calls |-> <<>>]
    /\ UNCHANGED <<kind, rendered, children, label, errorElement, className, hidden,
                   attached, listeners, regVars>>

(* --------------------------- specifications ---------------------------- *)

InitRegistry == \E seed \in Seeds : Construct(seed) /\ NewControl("base", 0)

NextRegistry ==
    \/ \E n \in StyleNames, c \in ClassLists : Register(n, c)
    \/ \E style \in StyleInputs : RegisterStyle(style)
    \/ \E n \in StyleNames : RegisterHeld(n)
    \/ \E list \in ManyLists : RegisterMany(list)
    \/ \E n \in StyleNames : Deregister(n)
    \/ \E n \in StyleNames : Get(n)
    \/ CallerPush(PushedClass)
    \/ CallerPop
    \/ \E n \in StyleNames, c \in ElementClassNames : ApplyStyles(n, c)
    \/ \E n \in StyleNames : GetAsClassName(n)

SpecRegistry == InitRegistry /\ [][NextRegistry]_vars

InitControl ==
    \E seed \in ControlSeeds, k \in Kinds, d \in Values : Construct(seed) /\ NewControl(k, d)

NextControl ==
    \/ Render
    \/ dispose
    \/ \E type \in RuntimeTypes, runtime \in RuntimeInputs : runtimeUpdated(type, runtime)
    \/ connectedCallback
    \/ disconnectedCallback
    \/ \E typed \in Values : UserEdit(typed)
    \/ StaleEdit
    \/ \E controlElement \in ElementInputs, newValue \in Values :
           DataChange(controlElement, newValue)

SpecControl == InitControl /\ [][NextControl]_vars

(* ------------------------------- claims -------------------------------- *)

\* The registry as a caller reads it: each record's name and class names.
Records(sts, arrs) ==
    [i \in 1..Len(sts) |-> [name |-> sts[i].name, classNames |-> arrs[sts[i].classNames]]]

\* C1: in every reachable state of the registry, constructed from any Style
\* list, the styles list holds at most one record per name.
C1_OneRecordPerName ==
    \A i, j \in 1..Len(styles) : styles[i].name = styles[j].name => i = j

\* C2: as long as the registry is changed only by register, registerMany and
\* deregister calls, get(N) returns, for every name N such a call has named,
\* the class names of the latest registration of N that no deregister(N)
\* followed, and the empty sequence when there is none.
C2_LastWriteWins ==
    callerWrites = 0 =>
        \A n \in StyleNames \ fromSeed : get(styles, arrays, n) = lastReg[n]

\* C2's case: a registration has just replaced an earlier record of its name.
C2_Witness ==
    /\ last.op = "register"
    /\ last.replaced
    /\ callerWrites = 0
    /\ Len(lastReg[last.name]) = 2
    /\ get(styles, arrays, last.name) = lastReg[last.name]

\* C3: after the caller has written to an array it got from get, get(N) and
\* getAsClassName(N) still return the class names registered for N.
C3_GetSharesNoState ==
    callerWrites > 0 =>
        \A n \in StyleNames \ fromSeed :
            /\ get(styles, arrays, n) = lastReg[n]
            /\ getAsClassName(styles, arrays, n) = Join(lastReg[n])

\* C4: applyStyles(name, element) leaves the class attribute as it is when no
\* class names are registered for name, and otherwise sets it to the element's
\* existing classes followed by the registered class names, single spaces
\* between them, also when the class attribute was empty.
C4_ApplyStylesAppends ==
    last.op = "applyStyles" =>
        LET registered == get(styles, arrays, last.name)
        IN last.after = IF Len(registered) = 0 THEN last.before
                        ELSE Join(Tokens(last.before) \o registered)

ErrorsPresent(errors) == errors.kind = "array" /\ Len(errors.items) > 0

\* C5: after a rendered control has handled a VALIDATION_ERROR event, the class
\* registered under 'validation.error' is on the control exactly when
\* runtime.validationErrors held at least one error.
C5_ErrorClassIffErrors ==
    (ctlLast.op = "runtimeUpdated" /\ ctlLast.type = "VALIDATION_ERROR"
        /\ ctlLast.outcome = "ok") =>
        (HasToken(className, getStyles("validation.error")) <=> ErrorsPresent(ctlLast.read))

\* C6: runtimeUpdated completes normally for every event kind, in every
\* lifecycle state and for every content of the styling registry.
C6_RuntimeUpdatedCompletes ==
    ctlLast.op = "runtimeUpdated" => ctlLast.outcome = "ok"

\* C7: a run of the change handler makes exactly one call
\* notifyAboutDataChange(e, v), with e the control's bound element and v
\* convertInputValue of the value this.input holds then; no other call on the
\* control makes one.
C7_EditNotifiesOnce ==
    /\ ctlLast.op = "edit" =>
           ctlLast.calls = <<[element |-> uischema,
                              value |-> convertInputValue(ctlLast.widget)]>>
    /\ ctlLast.op # "edit" => ctlLast.calls = <<>>

\* C7's case: an edit on a control whose input conversion is not the identity.
C7_Witness ==
    /\ ctlLast.op = "edit"
    /\ kind = "sub"
    /\ ctlLast.widget = 1
    /\ ctlLast.calls[1].value = 0

\* C8: the control is among the data service's listeners exactly while it is
\* attached, connectedCallback having registered it and disconnectedCallback
\* having deregistered it, and dispose() changes neither the listeners nor the
\* DOM.
C8_ListenerWhileAttached ==
    /\ [](/\ ("control" \in listeners) <=> attached
          /\ ctlLast.op = "connectedCallback" => "control" \in listeners
          /\ ctlLast.op = "disconnectedCallback" => "control" \notin listeners)
    /\ [][ctlLast'.op = "dispose" =>
              UNCHANGED <<listeners, attached, children, label, input, errorElement,
                          className, hidden>>]_vars

\* C8's case: the control was attached and has been detached again.
C8_Witness ==
    /\ ctlLast.op = "disconnectedCallback"
    /\ ~attached
    /\ "control" \notin listeners

\* C9: needsNotificationAbout(other) is true exactly when other is neither
\* null nor undefined and other.scope.$ref equals the control's scope.$ref.
C9_NeedsNotificationIffSameRef ==
    ctlLast.op = "dataChange" =>
        (ctlLast.needs <=>
            (ctlLast.element.kind = "element" /\ ctlLast.element.ref = uischema.ref))

\* C9's case: a notification about another path is declined.
C9_Witness ==
    /\ ctlLast.op = "dataChange"
    /\ ctlLast.element = Element("/lastName")
    /\ ~ctlLast.needs

\* C10: deregister(name) does not throw and removes exactly the records named
\* name: the other records stay, in their order, and nothing changes when no
\* record has that name.
C10_DeregisterRemovesOnlyName ==
    [][last'.op = "deregister" =>
           /\ ~last'.threw
           /\ Records(styles', arrays') =
                  SelectSeq(Records(styles, arrays), LAMBDA r : r.name # last'.name)]_vars

\* C10's case: a registered name was deregistered and another record remains.
C10_Witness ==
    /\ last.op = "deregister"
    /\ last.found
    /\ Len(styles) > 0

\* C11: getAsClassName(name) returns the class names registered for name with
\* exactly one space between neighbours (splitting the result at the spaces
\* gives the class names back), the empty string when there are none, and
\* leaves the registry as it is.
C11_GetAsClassNameJoins ==
    /\ [](last.op = "getAsClassName" =>
              LET registered == get(styles, arrays, last.name)
              IN IF Len(registered) = 0 THEN last.ret = <<>>
                 ELSE Split(last.ret) = registered)
    /\ [][last'.op = "getAsClassName" => UNCHANGED <<styles, arrays>>]_vars

\* C11's case: two class names come back as "b a".
C11_Witness ==
    /\ last.op = "getAsClassName"
    /\ get(styles, arrays, last.name) = <<Str("b"), Str("a")>>
    /\ last.ret = <<"b", SP, "a">>

\* C12: after a rendered control handled ENABLED its widget is disabled exactly
\* when runtime.enabled is false, and after VISIBLE the control is hidden
\* exactly when runtime.visible is false, whatever held before.
C12_EnabledAndVisibleFollowRuntime ==
    /\ (ctlLast.op = "runtimeUpdated" /\ ctlLast.type = "ENABLED" /\ rendered > 0) =>
           (input.disabled <=> ~ctlLast.read)
    /\ (ctlLast.op = "runtimeUpdated" /\ ctlLast.type = "VISIBLE" /\ rendered > 0) =>
           (hidden <=> ~ctlLast.read)

\* C12's case: ENABLED with runtime.enabled true on a hidden control, the
\* widget ends up without the disabled attribute.
C12_Witness ==
    /\ ctlLast.op = "runtimeUpdated"
    /\ ctlLast.type = "ENABLED"
    /\ rendered > 0
    /\ ctlLast.read
    /\ ~input.disabled
    /\ hidden

\* The text C13 expects for a list of messages.
OnePerLine(items) ==
    CASE Len(items) = 0 -> <<>>
      [] Len(items) = 1 -> items[1]
      [] Len(items) = 2 -> items[1] \o <<NL>> \o items[2]

\* C13: after a rendered control handled VALIDATION_ERROR the error element's
\* text is the messages one per line in their order, and empty when
\* validationErrors is null, undefined or an empty list.
C13_ErrorTextIsMessagesPerLine ==
    (ctlLast.op = "runtimeUpdated" /\ ctlLast.type = "VALIDATION_ERROR" /\ rendered > 0) =>
        errorElement.textContent =
            IF ctlLast.read.kind \in {"undefined", "null"} THEN <<>>
            ELSE OnePerLine(ctlLast.read.items)

\* C13's case: two messages, shown on two lines.
C13_Witness ==
    /\ ctlLast.op = "runtimeUpdated"
    /\ ctlLast.type = "VALIDATION_ERROR"
    /\ rendered > 0
    /\ ctlLast.read = Errors(<<Str("q"), Str("m")>>)
    /\ errorElement.textContent = <<"q", NL, "m">>

\* C14: a data-change notification whose element is null, undefined or bound
\* to another $ref leaves the widget's value as it was.
C14_OtherElementsLeaveWidget ==
    [][(ctlLast'.op = "dataChange" /\
        ~(ctlLast'.element.kind = "element" /\ ctlLast'.element.ref = uischema.ref))
           => input' = input]_vars

\* C14's case: a notification for another path, carrying a value the widget
\* does not show.
C14_Witness ==
    /\ ctlLast.op = "dataChange"
    /\ ctlLast.element = Element("/lastName")
    /\ input.value # convertModelValue(ctlLast.newValue)

\* C15: right after render() the widget holds convertModelValue of the bound
\* value, and after a notification for the control's own element it holds
\* convertModelValue of the notified value.
C15_WidgetShowsConvertedValue ==
    /\ ctlLast.op = "render" => input.value = convertModelValue(data)
    /\ (ctlLast.op = "dataChange" /\ ctlLast.element = uischema) =>
           input.value = convertModelValue(ctlLast.newValue)

\* C15's case: a control whose model conversion is not the identity is told
\* that its element changed to 0 and shows 1.
C15_Witness ==
    /\ ctlLast.op = "dataChange"
    /\ ctlLast.element = uischema
    /\ kind = "sub"
    /\ ctlLast.newValue = 0
    /\ input.value = 1

\* The class attribute without the class names of 'validation.error'.
WithoutErrorClass(attr) ==
    LET err == get(styles, arrays, "validation.error")
    IN SelectSeq(Tokens(attr), LAMBDA t : ~(\E i \in 1..Len(err) : err[i] = t))

\* C16: runtimeUpdated changes only what belongs to its event: for
\* VALIDATION_ERROR the error element's text and the control's error class,
\* for VISIBLE the hidden flag, for ENABLED the widget's disabled attribute,
\* for any other type nothing; the widget's value, the listeners, the data and
\* the registry are never changed.
C16_RuntimeUpdatedFrame ==
    [][ctlLast'.op = "runtimeUpdated" =>
          /\ UNCHANGED <<styles, arrays, listeners, attached, data, rendered, children,
                         label, kind>>
          /\ input'.value = input.value
          /\ CASE ctlLast'.type = "VALIDATION_ERROR" ->
                    /\ UNCHANGED <<hidden, input>>
                    /\ errorElement' = [errorElement EXCEPT
                                            !.textContent = errorElement'.textContent]
                    /\ WithoutErrorClass(className') = WithoutErrorClass(className)
               [] ctlLast'.type = "VISIBLE" ->
                    UNCHANGED <<errorElement, className, input>>
               [] ctlLast'.type = "ENABLED" ->
                    /\ UNCHANGED <<errorElement, className, hidden>>
                    /\ input' = [input EXCEPT !.disabled = input'.disabled]
               [] OTHER ->
                    UNCHANGED <<errorElement, className, hidden, input>>]_vars

\* C16's case: VALIDATION_ERROR put the error class next to the classes the
\* control already had.
C16_Witness ==
    /\ ctlLast.op = "runtimeUpdated"
    /\ ctlLast.type = "VALIDATION_ERROR"
    /\ ctlLast.outcome = "ok"
    /\ Len(Tokens(className)) > 2
    /\ HasToken(className, Str("e"))
    /\ HasToken(className, Str("c"))

\* C17: once render() has run, however often, the control's children are the
\* label, the widget and the error element it holds now, in that order, and a
\* change handler that writes to the data service is the current widget's.
C17_ThreeCurrentChildren ==
    rendered > 0 =>
        /\ children = <<Node("label", label.gen), Node("input", input.gen),
                        Node("error", errorElement.gen)>>
        /\ ctlLast.op = "edit" => ctlLast.handlerOf = input.gen

\* C18: after render() the label's classes are those of 'control.label'
\* followed by those of 'control.input', and the widget has no class of
\* 'control.input'.
C18_InputStyleOnLabel ==
    ctlLast.op = "render" =>
        LET ofInput == get(styles, arrays, "control.input")
        IN /\ Tokens(label.className) = get(styles, arrays, "control.label") \o ofInput
           /\ \A i \in 1..Len(ofInput) : ~HasToken(input.className, ofInput[i])

\* C18's case: both styles are registered, the label reads " l i".
C18_Witness ==
    /\ ctlLast.op = "render"
    /\ get(styles, arrays, "control.input") = <<Str("i")>>
    /\ label.className = <<SP, "l", SP, "i">>
    /\ input.className = <<>>

\* C19: an edit of the widget of a rendered control that is detached, and so
\* no listener of the data service, still makes the one call
\* notifyAboutDataChange for the bound element, and the value is stored.
C19_DetachedEditStillWrites ==
    (ctlLast.op = "edit" /\ ~attached /\ "control" \notin listeners) =>
        /\ Len(ctlLast.calls) = 1
        /\ ctlLast.calls[1].element = uischema
        /\ data = ctlLast.calls[1].value

\* C19's case: the current widget of a detached control is edited and 1 is
\* written to the data service.
C19_Witness ==
    /\ ctlLast.op = "edit"
    /\ ctlLast.handlerOf = input.gen
    /\ ~attached
    /\ "control" \notin listeners
    /\ Len(ctlLast.calls) = 1
    /\ data = 1

====
